---- MODULE Spec2Model ----
(***************************************************************************)
(* r3dy: a directory-tree renamer.  `r3dy [--invert] [path]` walks the     *)
(* tree under the root (collect_files), then renames every collected       *)
(* *.NEV entry to *.R3D, or the reverse with --invert (run).               *)
(*                                                                         *)
(* File names are sequences of ASCII codes, paths are sequences of names   *)
(* from the root directory <<>>, which is also the current directory of    *)
(* the process, and the filesystem is a function from the paths that exist *)
(* to their directory entries.  Arguments are texts: a positional argument *)
(* is split at '/' and resolved as the operating system resolves it.       *)
(***************************************************************************)
EXTENDS Integers, Sequences, FiniteSets, TLC

VARIABLES
    fs,                \* the filesystem: existing path -> directory entry
    fs0,               \* history: the filesystem when the process started
    args,              \* env::args().skip(1)
    pc,                \* position of the process in main / run / collect_files
    config,            \* Config { root, invert }
    stack,             \* collect_files: the work-list
    files,             \* collect_files: files, then collected.files
    warnings,          \* collect_files: warnings
    idx,               \* run: position of the for loop in collected.files
    converted,         \* run: converted
    skipped_existing,  \* run: skipped_existing
    failed,            \* run: failed, a sequence of <<path, error text>>
    out,               \* what was printed: the lines of println! and eprintln!
    notes,             \* the lines handed to progress.println, which the progress
                       \* bar prints only when it draws (stderr is a terminal)
    oplog,             \* history: per candidate processed, its outcome and whether
                       \* an entry occupied its target path at that moment
    exit_code,         \* process exit status, -1 while running
    popped,            \* history: the paths collect_files has popped so far
    runs,              \* history: the earlier runs over this tree, oldest first
    envlog             \* history: what other processes did to the tree meanwhile

vars == <<fs, fs0, args, pc, config, stack, files, warnings, idx, converted,
          skipped_existing, failed, out, notes, oplog, exit_code, popped, runs,
          envlog>>

-----------------------------------------------------------------------------
(* Bounds of the model.                                                    *)

\* at most this many entries below the root in the initial tree
MaxEntries == 3

-----------------------------------------------------------------------------
(* Names.                                                                  *)

NEV == <<78, 69, 86>>
R3D == <<82, 51, 68>>

n_d     == <<100>>                       \* "d"
n_x_NEV == <<120, 46, 78, 69, 86>>       \* "x.NEV"
n_x_nev == <<120, 46, 110, 101, 118>>    \* "x.nev"
n_x_R3D == <<120, 46, 82, 51, 68>>       \* "x.R3D"
n_m_NEV == <<109, 46, 78, 69, 86>>       \* "m.NEV"
n_dotNEV == <<46, 78, 69, 86>>           \* ".NEV"
n_dotdotNEV == <<46, 46, 78, 69, 86>>    \* "..NEV"

Min(a, b) == IF a < b THEN a ELSE b

\* u8::to_ascii_lowercase
to_ascii_lowercase(c) == IF c >= 65 /\ c <= 90 THEN c + 32 ELSE c

\* str::eq_ignore_ascii_case
eq_ignore_ascii_case(a, b) ==
    /\ Len(a) = Len(b)
    /\ \A i \in 1..Len(a) : to_ascii_lowercase(a[i]) = to_ascii_lowercase(b[i])

\* position of the last '.' of a name, 0 when it has none
LastDot(name) ==
    LET dots == {i \in 1..Len(name) : name[i] = 46}
    IN  IF dots = {} THEN 0 ELSE CHOOSE i \in dots : \A j \in dots : j <= i

\* Path::extension of the last component: no extension when the name has no
\* '.', when its only '.' is the first byte, or when the name is ".."
HasExt(name) == LastDot(name) > 1 /\ name # <<46, 46>>

extension(name) == SubSeq(name, LastDot(name) + 1, Len(name))

\* Path::file_stem
file_stem(name) ==
    IF HasExt(name) THEN SubSeq(name, 1, LastDot(name) - 1) ELSE name

\* has_extension(path, expected), on the last component of the path
has_extension_bad(path, expected) ==
    /\ path # <<>>
    /\ HasExt(path[Len(path)])
    /\ extension(path[Len(path)]) = expected

has_extension_any(path, expected) ==
    /\ path # <<>>
    /\ HasExt(path[Len(path)])

has_extension(path, expected) ==
    /\ path # <<>>
    /\ HasExt(path[Len(path)])
    /\ eq_ignore_ascii_case(extension(path[Len(path)]), expected)

with_extension_append(path, ext) ==
    SubSeq(path, 1, Len(path) - 1) \o <<path[Len(path)] \o <<46>> \o ext>>

\* Path::with_extension: the path is copied without the extension of its last
\* component (the '.' before it stays), then set_extension is applied to the
\* copy: it changes nothing when the copy has no file name (it is empty or
\* ends in ".."), and otherwise cuts the copy after the stem of its last
\* component and adds '.' and the extension, when the extension is not empty
with_extension(path, ext) ==
    IF path = <<>> THEN path
    ELSE LET name == path[Len(path)]
             copy == IF HasExt(name) THEN SubSeq(name, 1, LastDot(name)) ELSE name
         IN  IF copy = <<46, 46>> THEN SubSeq(path, 1, Len(path) - 1) \o <<copy>>
             ELSE SubSeq(path, 1, Len(path) - 1)
                     \o <<file_stem(copy) \o (IF ext = <<>> THEN <<>> ELSE <<46>> \o ext)>>

-----------------------------------------------------------------------------
(* Order of paths: PathBuf's Ord compares component by component, and a    *)
(* component byte by byte.                                                 *)

BytesLess(a, b) ==
    \E i \in 1..(Min(Len(a), Len(b)) + 1) :
        /\ \A j \in 1..(i - 1) : a[j] = b[j]
        /\ \/ i > Len(a) /\ i <= Len(b)
           \/ i <= Len(a) /\ i <= Len(b) /\ a[i] < b[i]

PathLess(p, q) ==
    \E i \in 1..(Min(Len(p), Len(q)) + 1) :
        /\ \A j \in 1..(i - 1) : p[j] = q[j]
        /\ \/ i > Len(p) /\ i <= Len(q)
           \/ i <= Len(p) /\ i <= Len(q) /\ BytesLess(p[i], q[i])

RECURSIVE Insert(_, _)
Insert(s, p) ==
    IF s = <<>> THEN <<p>>
    ELSE IF PathLess(p, Head(s)) THEN <<p>> \o s
    ELSE <<Head(s)>> \o Insert(Tail(s), p)

\* Vec::sort: a stable sort by PathBuf's Ord
SortPaths_unsorted(s) == s

RECURSIVE SortPaths(_)
SortPaths(s) ==
    IF s = <<>> THEN <<>>
    ELSE Insert(SortPaths(SubSeq(s, 1, Len(s) - 1)), s[Len(s)])

-----------------------------------------------------------------------------
(* The filesystem.  A directory entry is a regular file (data: what it     *)
(* holds), a directory (mode: its permission bits) or a symbolic link (to: *)
(* the path it names).  Directory modes: "rwx"; "-wx" cannot be listed;    *)
(* "rw-" cannot be searched (its children cannot be reached); "r-x" cannot *)
(* be written (no rename inside); "eio" opens but fails on the first read  *)
(* of its listing.                                                         *)

File(data) == [kind |-> "file", data |-> data]
Dir(mode)  == [kind |-> "dir", mode |-> mode]
Link(to)   == [kind |-> "symlink", to |-> to]

ImpairedModes == {"-wx", "rw-", "r-x", "eio"}

Parent(p) == SubSeq(p, 1, Len(p) - 1)

IsPrefix(p, q) == Len(p) <= Len(q) /\ SubSeq(q, 1, Len(p)) = p

\* the number of links a path resolution follows before it gives up with ELOOP
MaxSymlinks == 40

\* A lookup in progress: the directory reached (cur), the names still to look
\* up (comps), the number of links it may still follow (n) and the error that
\* stopped it (err, "" when none).
Done(s) == s.err # "" \/ s.comps = <<>>

\* one step of a lookup, as the operating system does it: the directory
\* reached is searched for the next name; "." stays, ".." goes to the parent,
\* a link on the way is replaced by the path it names, and so is a link at the
\* end when follow is set
WalkStep(f, s, follow) ==
    LET c    == Head(s.comps)
        rest == Tail(s.comps)
        p    == s.cur \o <<c>>
    IN  IF f[s.cur].kind # "dir" THEN [s EXCEPT !.err = "ENOTDIR"]
        ELSE IF f[s.cur].mode = "rw-" THEN [s EXCEPT !.err = "EACCES"]
        ELSE IF c = <<46>> THEN [s EXCEPT !.comps = rest]
        ELSE IF c = <<46, 46>>
        THEN [s EXCEPT !.cur = IF s.cur = <<>> THEN <<>> ELSE Parent(s.cur),
                       !.comps = rest]
        ELSE IF p \notin DOMAIN f THEN [s EXCEPT !.err = "ENOENT"]
        ELSE IF f[p].kind = "symlink" /\ (follow \/ rest # <<>>)
        THEN IF s.n = 0 THEN [s EXCEPT !.err = "ELOOP"]
             ELSE [cur |-> <<>>, comps |-> f[p].to \o rest, n |-> s.n - 1, err |-> ""]
        ELSE [s EXCEPT !.cur = p, !.comps = rest]

\* the lookup s after at most 2^k steps (each half is computed once)
RECURSIVE WalkFrom(_, _, _, _)
WalkFrom(f, s, k, follow) ==
    IF Done(s) THEN s
    ELSE IF k = 0 THEN WalkStep(f, s, follow)
    ELSE CHOOSE r \in {WalkFrom(f, t, k - 1, follow) :
                          t \in {WalkFrom(f, s, k - 1, follow)}} : TRUE

\* the lookup s carried to its end
RECURSIVE WalkOn(_, _, _, _)
WalkOn(f, s, k, follow) ==
    CHOOSE r \in {IF Done(t) THEN t ELSE WalkOn(f, t, k + 1, follow) :
                     t \in {WalkFrom(f, s, k, follow)}} : TRUE

\* the lookup of the names comps from the directory cur, with n links to
\* follow on the whole way: the entry found and where it is, or the error
Walk(f, cur, comps, n, follow) ==
    LET r == CHOOSE t \in {WalkOn(f, s, 0, follow) :
                              s \in {[cur |-> cur, comps |-> comps, n |-> n, err |-> ""]}} : TRUE
    IN  IF r.err # "" THEN [ok |-> FALSE, err |-> r.err]
        ELSE [ok |-> TRUE, meta |-> f[r.cur], path |-> r.cur]

symlink_metadata_follow(f, p) == Walk(f, <<>>, p, MaxSymlinks, TRUE)

\* fs::symlink_metadata: the entry p names, a link at the end not followed
symlink_metadata(f, p) == Walk(f, <<>>, p, MaxSymlinks, FALSE)

\* the error that stops the lookup of p, "" when p names an entry
LookupError(f, p) ==
    IF symlink_metadata(f, p).ok THEN "" ELSE symlink_metadata(f, p).err

\* the entry p resolves to, following at most n links on the whole way
Resolve(f, p, n) == Walk(f, <<>>, p, n, TRUE)

\* fs::metadata: the entry p resolves to, links followed
metadata(f, p) == Resolve(f, p, MaxSymlinks)

\* the test made on the tree as it was when the process started
exists_snapshot(f, p) == metadata(fs0, p).ok

exists_never(f, p) == FALSE

\* Path::exists: fs::metadata(path).is_ok(), so links are followed
exists(f, p) == metadata(f, p).ok

Children(f, p) == {q \in DOMAIN f : Len(q) = Len(p) + 1 /\ Parent(q) = p}

\* fs::read_dir, then the iteration of the listing: the directory p resolves
\* to is listed and each entry is named p joined with its file name
read_dir(f, p) ==
    LET r == metadata(f, p)
    IN  IF ~r.ok THEN [ok |-> FALSE, err |-> r.err]
        ELSE IF r.meta.kind # "dir" THEN [ok |-> FALSE, err |-> "ENOTDIR"]
        ELSE IF r.meta.mode = "-wx" THEN [ok |-> FALSE, err |-> "EACCES"]
        ELSE IF r.meta.mode = "eio" THEN [ok |-> TRUE, entries |-> {}, entry_err |-> "EIO"]
        ELSE [ok |-> TRUE,
              entries |-> {p \o <<q[Len(q)]>> : q \in Children(f, r.path)},
              entry_err |-> ""]

\* the orders in which a listing may enumerate a set of entries
Orders(S) ==
    {s \in [1..Cardinality(S) -> S] : \A i, j \in 1..Cardinality(S) : s[i] = s[j] => i = j}

Writable(f, d) == f[d].kind = "dir" /\ f[d].mode # "r-x"

\* where the entry p names is: the directory its parent resolves to, joined
\* with its last name
Place(f, p) ==
    IF p = <<>> \/ ~metadata(f, Parent(p)).ok THEN p
    ELSE metadata(f, Parent(p)).path \o <<p[Len(p)]>>

\* the error of the lookup of the directory a path's last name is in
ParentError(f, p) ==
    LET d == metadata(f, Parent(p))
    IN  IF ~d.ok THEN d.err
        ELSE IF d.meta.kind # "dir" THEN "ENOTDIR"
        ELSE IF d.meta.mode = "rw-" THEN "EACCES"
        ELSE ""

\* the error of rename(src, dst), "" when it succeeds: both parent directories
\* are looked up, then the last names ("." and ".." cannot be renamed), then
\* the entry at src, then the permissions and the entry at dst
RenameError(f, src, dst) ==
    LET S == Place(f, src)
        D == Place(f, dst)
    IN  IF ParentError(f, src) # "" THEN ParentError(f, src)
        ELSE IF ParentError(f, dst) # "" THEN ParentError(f, dst)
        ELSE IF src[Len(src)] \in {<<46>>, <<46, 46>>} THEN "EBUSY"
        ELSE IF dst[Len(dst)] \in {<<46>>, <<46, 46>>} THEN "EBUSY"
        ELSE IF S \notin DOMAIN f THEN "ENOENT"
        ELSE IF ~Writable(f, Parent(S)) \/ ~Writable(f, Parent(D)) THEN "EACCES"
        ELSE IF D \notin DOMAIN f THEN ""
        ELSE IF f[D].kind = "dir" /\ f[S].kind # "dir" THEN "EISDIR"
        ELSE IF f[D].kind # "dir" /\ f[S].kind = "dir" THEN "ENOTDIR"
        ELSE IF f[D].kind = "dir" /\ Children(f, D) # {} THEN "ENOTEMPTY"
        ELSE ""

RenameFs_deref(f, src, dst) ==
    LET s == IF f[src].kind = "symlink" /\ metadata(f, src).ok
             THEN metadata(f, src).path ELSE src
    IN  [p \in (DOMAIN f \ {s}) \cup {dst} |-> IF p = dst THEN f[s] ELSE f[p]]

\* the filesystem after a successful rename(src, dst): the entry at src, with
\* everything below it, is at dst, replacing what was there
RenameFs(f, src, dst) ==
    LET S     == Place(f, src)
        D     == Place(f, dst)
        moved == {q \in DOMAIN f : IsPrefix(S, q)}
        kept  == {q \in DOMAIN f : ~IsPrefix(S, q) /\ ~IsPrefix(D, q)}
        to(q) == D \o SubSeq(q, Len(S) + 1, Len(q))
    IN  [p \in kept \cup {to(q) : q \in moved} |->
            IF p \in kept THEN f[p]
            ELSE f[CHOOSE q \in moved : to(q) = p]]

-----------------------------------------------------------------------------
(* Config.                                                                 *)

a_invert == <<45, 45, 105, 110, 118, 101, 114, 116>>   \* "--invert"
a_help   == <<45, 45, 104, 101, 108, 112>>             \* "--help"
a_h      == <<45, 104>>                                \* "-h"

\* the arguments before the first --help or -h, all of them when there is none
RECURSIVE BeforeHelp(_)
BeforeHelp(a) ==
    IF a = <<>> THEN <<>>
    ELSE IF Head(a) \in {a_help, a_h} THEN <<>>
    ELSE <<Head(a)>> \o BeforeHelp(Tail(a))

Positionals(a) == SelectSeq(a, LAMBDA t : t # a_invert)

\* env::current_dir: the process runs in the root directory of the tree
current_dir == <<>>

\* Path::is_absolute: the text starts with '/'
is_absolute(s) == s # <<>> /\ s[1] = 47

\* the components of a path text: the pieces between '/', empty ones dropped
RECURSIVE SplitPath(_)
SplitPath(s) ==
    IF s = <<>> THEN <<>>
    ELSE LET cut == {i \in 1..Len(s) : s[i] = 47}
             k   == IF cut = {} THEN Len(s) + 1
                    ELSE CHOOSE i \in cut : \A j \in cut : i <= j
         IN  (IF k > 1 THEN <<SubSeq(s, 1, k - 1)>> ELSE <<>>)
                \o SplitPath(SubSeq(s, k + 1, Len(s)))

\* fs::metadata of a path given as text components, looked up from the
\* directory cur, with one budget of links for the whole path
WalkPath(f, cur, comps) == Walk(f, cur, comps, MaxSymlinks, TRUE)

\* fs::metadata of `cwd.join(path)`, or of path itself when it is absolute; a
\* text that ends in '/' names a directory or nothing
metadata_of_arg(f, text) ==
    LET from == IF is_absolute(text) THEN <<>> ELSE current_dir
        r    == WalkPath(f, from, SplitPath(text))
    IN  IF r.ok /\ text # <<>> /\ text[Len(text)] = 47 /\ r.meta.kind # "dir"
        THEN [ok |-> FALSE, err |-> "ENOTDIR"]
        ELSE r

\* Config::from_env: Help, Message (a configuration error) or Ok with the Config
from_env(f, a) ==
    LET seen == BeforeHelp(a)
        pos  == Positionals(seen)
        inv  == \E i \in 1..Len(seen) : seen[i] = a_invert
        meta == IF pos = <<>> THEN metadata(f, current_dir)
                ELSE metadata_of_arg(f, pos[1])
    IN  IF Len(pos) >= 2 THEN [res |-> "Message", msg |-> "Unexpected argument"]
        ELSE IF Len(seen) < Len(a) THEN [res |-> "Help"]
        ELSE IF ~meta.ok THEN [res |-> "Message", msg |-> "is not accessible"]
        ELSE IF meta.meta.kind # "dir" THEN [res |-> "Message", msg |-> "is not a directory"]
        ELSE [res |-> "Ok", root |-> meta.path, invert |-> inv]

\* Config::source_extension
source_extension_fixed(c) == NEV

source_extension(c) == IF c.invert THEN R3D ELSE NEV

\* Config::target_extension
target_extension(c) == IF c.invert THEN NEV ELSE R3D

\* display_relative: the path with the root stripped when it is below the root
display_relative(root, path) ==
    IF IsPrefix(root, path) THEN SubSeq(path, Len(root) + 1, Len(path)) ELSE path

NoConfig == [root |-> <<>>, invert |-> FALSE]

-----------------------------------------------------------------------------
(* The initial states: a tree of at most MaxEntries entries below the      *)
(* current directory, and an argument list.                                *)

RootNames == {n_d, n_x_NEV, n_x_nev, n_x_R3D, n_m_NEV}
SubNames  == {n_x_NEV, n_dotNEV, n_dotdotNEV}

Slots == {<<n>> : n \in RootNames} \cup {<<n_d, n>> : n \in SubNames}

\* what a slot may hold: a regular file, a directory, a link to the current
\* directory, a link to m.NEV beside it
Kinds == {"file", "dir", "link_cwd", "link_m"}

\* the entry of kind k at slot p; a file holds its own original path as data
\* (link_x names x.NEV beside it; link_dx names d/x.NEV, a path through a
\* link when d is one)
EntryOf(p, k) ==
    CASE k = "file"     -> File(p)
      [] k = "dir"      -> Dir("rwx")
      [] k = "link_cwd" -> Link(<<>>)
      [] k = "link_m"   -> Link(Parent(p) \o <<n_m_NEV>>)
      [] k = "link_x"   -> Link(Parent(p) \o <<n_x_NEV>>)
      [] k = "link_dx"  -> Link(<<n_d, n_x_NEV>>)

\* at most one directory, the current directory or d, has a permission bit
\* removed: imp.dir is that directory and imp.mode is its mode
Impairments ==
    {[dir |-> <<>>, mode |-> "rwx"]}
        \cup {[dir |-> d, mode |-> m] : d \in {<<>>, <<n_d>>}, m \in ImpairedModes}

\* the tree with the slots S filled as e says, and the impairment imp
Tree(S, e, imp) ==
    [p \in S \cup {<<>>} |->
        IF p = imp.dir THEN Dir(imp.mode)
        ELSE IF p = <<>> THEN Dir("rwx")
        ELSE EntryOf(p, e[p])]

\* entries exist in directories only
WellFormed(S, e, imp) ==
    /\ \A p \in S : Len(p) = 2 => Parent(p) \in S /\ e[Parent(p)] = "dir"
    /\ imp.dir # <<>> => imp.dir \in S /\ e[imp.dir] = "dir"

ArgLists == {<<>>, <<a_invert>>, <<n_d>>, <<a_h>>, <<n_d, n_x_NEV>>}

\* the state of a process that starts with the arguments a on the tree f
Start(f, a) ==
    /\ fs = f
    /\ fs0 = f
    /\ args = a
    /\ pc = "main"
    /\ config = NoConfig
    /\ stack = <<>>
    /\ files = <<>>
    /\ warnings = <<>>
    /\ idx = 0
    /\ converted = 0
    /\ skipped_existing = 0
    /\ failed = <<>>
    /\ out = <<>>
    /\ notes = <<>>
    /\ oplog = <<>>
    /\ exit_code = -1
    /\ popped = {}
    /\ runs = <<>>
    /\ envlog = <<>>

\* a process started on any tree over the given slots, kinds and impairments,
\* with any of the given argument lists
InitWith(slots, kinds, imps, arglists) ==
    \E S \in {T \in SUBSET slots : Cardinality(T) <= MaxEntries} :
       \E e \in [S -> kinds] :
          \E imp \in imps :
             \E a \in arglists :
                /\ WellFormed(S, e, imp)
                /\ Start(Tree(S, e, imp), a)

Init == InitWith(Slots, Kinds, Impairments, ArgLists)

-----------------------------------------------------------------------------
(* main and Config::from_env, up to the first iteration of collect_files.  *)

Usage == [t |-> "usage"]

Main ==
    /\ pc = "main"
    /\ LET r == from_env(fs, args)
       IN  CASE r.res = "Help" ->
                  /\ out' = out \o <<Usage>>
                  /\ exit_code' = 0
                  /\ pc' = "done"
                  /\ UNCHANGED <<config, stack>>
             [] r.res = "Message" ->
                  /\ out' = out \o <<[t |-> "error", msg |-> r.msg], Usage>>
                  /\ exit_code' = 1
                  /\ pc' = "done"
                  /\ UNCHANGED <<config, stack>>
             [] r.res = "Ok" ->
                  /\ config' = [root |-> r.root, invert |-> r.invert]
                  /\ stack' = <<r.root>>
                  /\ pc' = "collect"
                  /\ UNCHANGED <<out, exit_code>>
    /\ UNCHANGED <<fs, fs0, args, files, warnings, idx, converted,
                   skipped_existing, failed, oplog, popped, runs, envlog, notes>>

-----------------------------------------------------------------------------
(* collect_files: one iteration of `while let Some(path) = stack.pop()`.   *)

Warning_nopath(what, path, err) == [what |-> what, path |-> <<>>, err |-> err]

Warning(what, path, err) == [what |-> what, path |-> path, err |-> err]

CollectStep ==
    /\ pc = "collect"
    /\ stack # <<>>
    /\ LET path == stack[Len(stack)]
           rest == SubSeq(stack, 1, Len(stack) - 1)
           ext  == source_extension(config)
           m    == symlink_metadata(fs, path)
       IN  IF ~m.ok
           THEN /\ warnings' = Append(warnings, Warning("Skipping", path, m.err))
                /\ stack' = rest
                /\ files' = files
           ELSE IF m.meta.kind = "dir"
           THEN LET d == read_dir(fs, path)
                IN  IF d.ok
                    THEN /\ \E order \in Orders(d.entries) : stack' = rest \o order
                         /\ warnings' =
                              IF d.entry_err = "" THEN warnings
                              ELSE Append(warnings,
                                          Warning("Skipping entry in", path, d.entry_err))
                         /\ files' = files
                    ELSE /\ warnings' =
                              Append(warnings, Warning("Skipping directory", path, d.err))
                         /\ stack' = rest
                         /\ files' = files
           ELSE IF m.meta.kind = "file" /\ has_extension(path, ext)
           THEN /\ files' = Append(files, path)
                /\ stack' = rest
                /\ warnings' = warnings
           ELSE IF m.meta.kind = "symlink"
           THEN LET t == metadata(fs, path)
                IN  IF t.ok
                    THEN /\ files' = IF t.meta.kind = "file" /\ has_extension(path, ext)
                                     THEN Append(files, path) ELSE files
                         /\ stack' = rest
                         /\ warnings' = warnings
                    ELSE /\ warnings' =
                              Append(warnings, Warning("Skipping symlink", path, t.err))
                         /\ stack' = rest
                         /\ files' = files
           ELSE /\ stack' = rest
                /\ files' = files
                /\ warnings' = warnings
    /\ popped' = popped \cup {stack[Len(stack)]}
    /\ UNCHANGED <<fs, fs0, args, pc, config, idx, converted, skipped_existing,
                   failed, out, oplog, exit_code, runs, envlog, notes>>

-----------------------------------------------------------------------------
(* The end of collect_files (files.sort()) and run up to its for loop.     *)

RECURSIVE WarningLines(_)
WarningLines(w) ==
    IF w = <<>> THEN <<>>
    ELSE <<[t |-> "warning", w |-> Head(w)]>> \o WarningLines(Tail(w))

\* ProgressStyle::with_template on the template literal of run: "" when the
\* style is built. The literal is well formed, so the call returns Ok.
with_template_err == ""

\* the exit status main gives the process for the result of run
ExitCode(res) == IF res = "Ok" THEN 0 ELSE 1

CollectDone ==
    /\ pc = "collect"
    /\ stack = <<>>
    /\ files' = SortPaths(files)
    /\ IF files' = <<>>
       THEN /\ out' = out \o WarningLines(warnings)
                        \o <<[t |-> "nofiles", ext |-> source_extension(config),
                              root |-> config.root]>>
            /\ exit_code' = 0
            /\ pc' = "done"
            /\ idx' = idx
       ELSE IF with_template_err = ""
       THEN /\ out' = out \o WarningLines(warnings)
            /\ idx' = 1
            /\ pc' = "check"
            /\ exit_code' = exit_code
       ELSE /\ out' = out \o WarningLines(warnings)
                        \o <<[t |-> "error", msg |-> with_template_err]>>
            /\ exit_code' = ExitCode("Err")
            /\ pc' = "done"
            /\ idx' = idx
    /\ UNCHANGED <<fs, fs0, args, config, stack, warnings, converted,
                   skipped_existing, failed, oplog, popped, runs, envlog, notes>>

-----------------------------------------------------------------------------
(* run: one iteration of `for path in &collected.files`, in two steps: the *)
(* test of target.exists(), then fs::rename.  The path, its target and the *)
(* result of the rename are each computed once.                            *)

Target(path) == with_extension(path, target_extension(config))

RunCheck ==
    /\ pc = "check"
    /\ idx <= Len(files)
    /\ \E path \in {files[idx]} : \E target \in {Target(path)} :
           IF exists(fs, target)
           THEN /\ skipped_existing' = skipped_existing + 1
                /\ notes' = Append(notes, [t |-> "skipping",
                                           path |-> display_relative(config.root, path),
                                           target |-> display_relative(config.root, target)])
                /\ oplog' = Append(oplog, [path |-> path, target |-> target,
                                           outcome |-> "skipped",
                                           occupied |-> target \in DOMAIN fs,
                                           present |-> path \in DOMAIN fs])
                /\ idx' = idx + 1
                /\ pc' = pc
           ELSE /\ pc' = "rename"
                /\ UNCHANGED <<skipped_existing, notes, oplog, idx>>
    /\ UNCHANGED <<fs, fs0, args, config, stack, files, warnings, converted,
                   failed, exit_code, popped, runs, envlog, out>>

\* failed.push((path.clone(), error_text.clone()))
RecordFailure_dropped(fl, path, err) == fl

RecordFailure_target(fl, path, err) == Append(fl, <<Target(path), err>>)

RecordFailure(fl, path, err) == Append(fl, <<path, err>>)

RunRename ==
    /\ pc = "rename"
    /\ \E path \in {files[idx]} : \E target \in {Target(path)} :
        \E err \in {RenameError(fs, path, target)} :
           IF err = ""
           THEN /\ fs' = RenameFs(fs, path, target)
                /\ converted' = converted + 1
                /\ oplog' = Append(oplog, [path |-> path, target |-> target,
                                           outcome |-> "converted",
                                           occupied |-> target \in DOMAIN fs,
                                           present |-> path \in DOMAIN fs])
                /\ UNCHANGED <<failed, notes>>
           ELSE /\ failed' = RecordFailure(failed, path, err)
                /\ notes' = Append(notes, [t |-> "failed",
                                           path |-> display_relative(config.root, path),
                                           err |-> err])
                /\ oplog' = Append(oplog, [path |-> path, target |-> target,
                                           outcome |-> "failed",
                                           occupied |-> target \in DOMAIN fs,
                                           present |-> path \in DOMAIN fs])
                /\ UNCHANGED <<fs, converted>>
    /\ idx' = idx + 1
    /\ pc' = "check"
    /\ UNCHANGED <<fs0, args, config, stack, files, warnings, skipped_existing,
                   exit_code, popped, runs, envlog, out>>

RECURSIVE FailureLines(_, _)
FailureLines(root, fl) ==
    IF fl = <<>> THEN <<>>
    ELSE <<[t |-> "could_not", path |-> display_relative(root, Head(fl)[1]),
            err |-> Head(fl)[2]]>> \o FailureLines(root, Tail(fl))

\* the summary line: "Converted {} file{} (skipped: {}, failed: {})"
Summary(c, s, f) ==
    [t |-> "summary", converted |-> c, plural |-> IF c = 1 THEN "" ELSE "s",
     skipped |-> s, failed |-> f]

run_result_strict(fl) == IF fl = <<>> THEN "Ok" ELSE "Err"

\* run ends with Ok(()) whatever the list of failures holds
run_result(fl) == "Ok"

RunFinish ==
    /\ pc = "check"
    /\ idx > Len(files)
    /\ out' = out \o <<Summary(converted, skipped_existing, Len(failed))>>
                  \o FailureLines(config.root, failed)
    /\ exit_code' = ExitCode(run_result(failed))
    /\ pc' = "done"
    /\ UNCHANGED <<fs, fs0, args, config, stack, files, warnings, idx, converted,
                   skipped_existing, failed, oplog, popped, runs, envlog, notes>>

Next == Main \/ CollectStep \/ CollectDone \/ RunCheck \/ RunRename \/ RunFinish

Spec == Init /\ [][Next]_vars

-----------------------------------------------------------------------------
(* What the claims speak of.                                               *)

Range(s) == {s[i] : i \in 1..Len(s)}

\* the configuration step succeeded, so collect_files and run were entered
Ran == from_env(fs0, args).res = "Ok"

\* collect_files has returned
Collected == pc \in {"check", "rename", "done"} /\ Ran

Upper(c) == IF c >= 97 /\ c <= 122 THEN c - 32 ELSE c

\* the name ends in '.' and E, compared ignoring ASCII case, after a non-empty stem
NameHasExt(name, E) ==
    LET k == Len(name) - Len(E)
    IN  /\ k >= 2
        /\ name[k] = 46
        /\ \A i \in 1..Len(E) : Upper(name[k + i]) = Upper(E[i])

\* a regular file, or a link that resolves to one
FileLike(f, p) ==
    \/ f[p].kind = "file"
    \/ /\ f[p].kind = "symlink"
       /\ LET m == metadata(f, p) IN m.ok /\ m.meta.kind = "file"

\* p is below root and every directory from root down to p's parent is a real
\* directory whose mode is not one of `closed`
Below(f, root, p, closed) ==
    /\ IsPrefix(root, p) /\ p # root
    /\ \A k \in Len(root)..(Len(p) - 1) :
          /\ SubSeq(p, 1, k) \in DOMAIN f
          /\ f[SubSeq(p, 1, k)].kind = "dir"
          /\ f[SubSeq(p, 1, k)].mode \notin closed

\* the files the collector is to return when nothing fails
ExpectedFiles(f, root, E) ==
    {p \in DOMAIN f : Below(f, root, p, {}) /\ NameHasExt(p[Len(p)], E) /\ FileLike(f, p)}

SrcExt == IF \E i \in 1..Len(args) : args[i] = a_invert THEN R3D ELSE NEV
DstExt == IF \E i \in 1..Len(args) : args[i] = a_invert THEN NEV ELSE R3D

\* the entry of the log for the candidate files[i]
Outcome(i) == oplog[i].outcome

\* the target path of the candidate p: same directory and stem, with the
\* extension of its name, E long, replaced by E
TargetPath(p, E) ==
    Parent(p) \o <<SubSeq(p[Len(p)], 1, Len(p[Len(p)]) - Len(E)) \o E>>

\* the name is ".." followed by an extension, as in "..NEV"
DotDotName(name) ==
    Len(name) > 2 /\ name[1] = 46 /\ name[2] = 46 /\ LastDot(name) = 2

\* C1: with no failing filesystem call (no warning), the collector returns
\* exactly the regular files and links to regular files below the root, in real
\* directories, whose extension is the source extension ignoring ASCII case.
C1_CollectExact ==
    (Collected /\ warnings = <<>>) =>
        Range(files) = ExpectedFiles(fs0, config.root, SrcExt)

C1_Witness ==
    /\ pc = "done" /\ Collected /\ warnings = <<>>
    /\ \E p \in Range(files) :
          fs0[p].kind = "symlink" /\ extension(p[Len(p)]) # SrcExt
    /\ \E r \in DOMAIN fs0 :
          /\ fs0[r].kind = "symlink" /\ NameHasExt(r[Len(r)], SrcExt)
          /\ r \notin Range(files)


\* the path holds a directory entry of any type (links not followed)
Occupied(f, p) == p \in DOMAIN f

\* C2: a candidate whose target path exists (here even: resolves) before the
\* executor starts stays in place unmodified and is counted as skipped.
C2_ExistingTargetSkipped ==
    (pc = "done" /\ Ran) =>
        \A i \in 1..Len(files) :
            metadata(fs0, Target(files[i])).ok =>
                /\ Occupied(fs, files[i])
                /\ fs[files[i]] = fs0[files[i]]
                /\ Outcome(i) = "skipped"

\* C3: when an entry of any type occupies the target path, the candidate is
\* skipped without a rename, so that no candidate is ever converted onto a
\* target path that an entry occupies.
C3_OccupiedTargetNeverRenamed ==
    \A i \in 1..Len(oplog) : oplog[i].occupied => Outcome(i) # "converted"

CountOutcome(o) == Cardinality({i \in 1..Len(oplog) : Outcome(i) = o})

\* C4: after k candidates the three tallies sum to k, every candidate processed
\* so far is in exactly one tally, and at the end k is the number of candidates.
C4_TalliesPartition ==
    Collected =>
        /\ converted + skipped_existing + Len(failed) = Len(oplog)
        /\ Len(oplog) = (IF pc = "done" THEN Len(files) ELSE idx - 1)
        /\ \A i \in 1..Len(oplog) : oplog[i].path = files[i]
        /\ CountOutcome("converted") = converted
        /\ CountOutcome("skipped") = skipped_existing
        /\ CountOutcome("failed") = Len(failed)

C4_Witness ==
    /\ pc = "done" /\ Collected
    /\ skipped_existing >= 1 /\ Len(failed) >= 1

\* C5: from its rename on, and still at the end of the run, a converted
\* candidate's original path is gone and its target path holds the entry the
\* original path held.
C5_ConvertedStays ==
    Collected =>
        \A i \in 1..Len(oplog) :
            Outcome(i) = "converted" =>
                /\ ~Occupied(fs, files[i])
                /\ Occupied(fs, Target(files[i]))
                /\ fs[Target(files[i])] = fs0[files[i]]

\* C6: a failing rename records the original path with the error text and
\* changes nothing else, the loop moves to the next candidate without a retry,
\* and at the end every candidate has been processed exactly once.
C6_FailureRecorded ==
    /\ []((pc = "done" /\ Ran) =>
             /\ Len(oplog) = Len(files)
             /\ \A i \in 1..Len(files) : oplog[i].path = files[i])
    /\ [][(pc = "rename" /\ RenameError(fs, files[idx], Target(files[idx])) # "") =>
             /\ failed' = Append(failed,
                                 <<files[idx], RenameError(fs, files[idx], Target(files[idx]))>>)
             /\ fs' = fs
             /\ files' = files
             /\ idx' = idx + 1
             /\ pc' = "check"]_vars

C6_Witness ==
    /\ pc = "done" /\ Collected
    /\ \E i, j \in 1..Len(oplog) :
          i < j /\ Outcome(i) = "failed" /\ Outcome(j) = "converted"

\* the paths the walk pops: the root, and the children of the directories it
\* could stat and list
Visited(f, root) ==
    {root} \cup
    {p \in DOMAIN f :
        /\ IsPrefix(root, p) /\ p # root
        /\ f[Parent(p)].kind = "dir"
        /\ f[Parent(p)].mode \notin {"-wx", "eio"}
        /\ Parent(p) = root \/ Below(f, root, Parent(p), {"-wx", "eio", "rw-"})}

\* the visited paths at which a filesystem call fails
Fails(f, p) ==
    LET m == symlink_metadata(f, p)
    IN  \/ ~m.ok
        \/ m.ok /\ f[p].kind = "dir" /\ f[p].mode \in {"-wx", "eio"}
        \/ m.ok /\ f[p].kind = "symlink" /\ ~metadata(f, p).ok

\* the matching files that can be reached despite the failures
ReachableFiles(f, root, E) ==
    {p \in Visited(f, root) \ {root} :
        /\ NameHasExt(p[Len(p)], E)
        /\ symlink_metadata(f, p).ok
        /\ FileLike(f, p)}

\* C7: every failure during the walk leaves a warning naming the failing path
\* and is not fatal: the walk returns every matching file it can reach through
\* the directories that can be listed.
C7_ErrorsNonFatal ==
    Collected =>
        /\ \A p \in Visited(fs0, config.root) :
              Fails(fs0, p) => \E w \in Range(warnings) : w.path = p
        /\ \A w \in Range(warnings) :
              w.path \in Visited(fs0, config.root) /\ Fails(fs0, w.path)
        /\ Range(files) = ReachableFiles(fs0, config.root, SrcExt)

C7_Witness ==
    /\ pc = "done" /\ Collected
    /\ files # <<>>
    /\ \E w \in Range(warnings) :
          /\ w.what = "Skipping directory"
          /\ \E p \in DOMAIN fs0 : Parent(p) = w.path /\ p # w.path
                                   /\ NameHasExt(p[Len(p)], SrcExt)

\* C8: the returned list is strictly ascending in the order of paths, so it has
\* no duplicates, and it holds exactly the reachable matching files of the tree:
\* it does not depend on the order in which listings enumerate.
C8_SortedDeterministic ==
    Collected =>
        /\ \A i, j \in 1..Len(files) : i < j => PathLess(files[i], files[j])
        /\ Range(files) = ReachableFiles(fs0, config.root, SrcExt)

C8_Witness ==
    /\ pc = "done" /\ Collected
    /\ Len(files) >= 2
    /\ Len(files[1]) = 2 /\ Len(files[2]) = 1

HasLine(t) == \E i \in 1..Len(out) : out[i].t = t

\* C9: with no matching file below the root the run never enters the rename
\* loop, renames nothing, prints no summary, and ends with the "no files found"
\* message and exit code 0.
C9_NoFilesFound ==
    (pc # "main" /\ Ran /\ ExpectedFiles(fs0, config.root, SrcExt) = {}) =>
        /\ pc \notin {"check", "rename"}
        /\ fs = fs0
        /\ oplog = <<>>
        /\ ~HasLine("summary")
        /\ pc = "done" =>
              /\ exit_code = 0
              /\ out[Len(out)] = [t |-> "nofiles", ext |-> SrcExt, root |-> config.root]

C9_Witness ==
    /\ pc = "done" /\ Ran
    /\ ExpectedFiles(fs0, config.root, SrcExt) = {}
    /\ \E p \in DOMAIN fs0 : fs0[p].kind = "file" /\ IsPrefix(config.root, p)

\* the tree holds regular files with the extension NEV, at least one, and
\* besides them directories only
OnlyNEV(f) ==
    /\ \E p \in DOMAIN f : f[p].kind = "file"
    /\ \A p \in DOMAIN f :
          \/ f[p].kind = "dir"
          \/ f[p].kind = "file" /\ NameHasExt(p[Len(p)], NEV)

\* C10 as stated: --invert on a tree of .NEV files converts nothing and prints
\* the summary line "Converted 0 files (skipped: 0, failed: 0)".
C10_InvertSummaryLine ==
    (pc = "done" /\ Ran /\ SrcExt = R3D /\ OnlyNEV(fs0)) =>
        /\ converted = 0
        /\ \E i \in 1..Len(out) : out[i] = Summary(0, 0, 0)

\* C10 amended: --invert on a tree of .NEV files converts nothing, leaves the
\* tree as it was, and prints the "No .R3D files found" message, no summary.
C10_InvertNoFiles ==
    (pc = "done" /\ Ran /\ SrcExt = R3D /\ OnlyNEV(fs0)) =>
        /\ converted = 0
        /\ fs = fs0
        /\ exit_code = 0
        /\ ~HasLine("summary")
        /\ out[Len(out)] = [t |-> "nofiles", ext |-> R3D, root |-> config.root]

C10_Witness ==
    /\ pc = "done" /\ Ran /\ SrcExt = R3D /\ OnlyNEV(fs0)
    /\ Cardinality({p \in DOMAIN fs0 : fs0[p].kind = "file"}) >= 2

-----------------------------------------------------------------------------
NoLinks(f) == \A p \in DOMAIN f : f[p].kind # "symlink"

\* C11 as stated, taken on the trees that hold no symbolic link and on the
\* runs with no candidate named like "..NEV": when no rename failed, a
\* candidate was skipped exactly if an entry was at its target path before the
\* executor started, and every other candidate was converted.
C11_SkippedIffPreexisting ==
    (/\ pc = "done" /\ Ran /\ failed = <<>> /\ NoLinks(fs0)
     /\ \A i \in 1..Len(files) : ~DotDotName(files[i][Len(files[i])])) =>
        \A i \in 1..Len(oplog) :
           /\ Outcome(i) = "skipped" <=> Occupied(fs0, TargetPath(oplog[i].path, DstExt))
           /\ Outcome(i) # "skipped" => Outcome(i) = "converted"

\* the candidate p is one C11, amended, speaks of in the tree f: its name is
\* not like "..NEV" and no symbolic link occupies its target path
C11_Scope(f, p) ==
    /\ ~DotDotName(p[Len(p)])
    /\ TargetPath(p, DstExt) \in DOMAIN f => f[TargetPath(p, DstExt)].kind # "symlink"

\* C11, amended: a candidate is skipped exactly if an entry occupies its target
\* path (same directory and stem, target extension) at the moment the
\* candidate is processed, whether that entry was there before the executor
\* started or was put there by an earlier conversion of the same run; every
\* other candidate goes on to the rename and is converted unless the rename
\* fails. Stated for the candidates whose target path no symbolic link
\* occupies and whose name is not like "..NEV".
C11_SkippedIffTargetOccupied ==
    [][ /\ (pc = "check" /\ idx <= Len(files) /\ C11_Scope(fs, files[idx])) =>
             IF TargetPath(files[idx], DstExt) \in DOMAIN fs
             THEN /\ skipped_existing' = skipped_existing + 1
                  /\ converted' = converted
                  /\ idx' = idx + 1
                  /\ fs' = fs
             ELSE /\ skipped_existing' = skipped_existing
                  /\ pc' = "rename"
                  /\ idx' = idx
        /\ (pc = "rename" /\ failed' = failed
            /\ ~DotDotName(files[idx][Len(files[idx])])) =>
             /\ converted' = converted + 1
             /\ skipped_existing' = skipped_existing
             /\ idx' = idx + 1
             /\ TargetPath(files[idx], DstExt) \in DOMAIN fs'
             /\ files[idx] \notin DOMAIN fs' ]_vars

\* a run without failures, on a tree without links, skipped a candidate whose
\* target path was free before the executor started: an earlier conversion had
\* filled it
C11_Witness ==
    /\ pc = "done" /\ Ran /\ failed = <<>> /\ NoLinks(fs0)
    /\ \E i, j \in 1..Len(oplog) :
          /\ j < i
          /\ Outcome(j) = "converted" /\ Outcome(i) = "skipped"
          /\ TargetPath(oplog[j].path, DstExt) = TargetPath(oplog[i].path, DstExt)
          /\ ~Occupied(fs0, TargetPath(oplog[i].path, DstExt))

-----------------------------------------------------------------------------
\* C12: rename failures never change the exit code. A run whose configuration
\* succeeded ends with exit code 0 whatever the numbers of failed and skipped
\* candidates; exit code 1 is given only on a configuration error or when the
\* progress display cannot be initialised.
C12_ExitCode ==
    pc = "done" =>
       /\ exit_code \in {0, 1}
       /\ (Ran /\ with_template_err = "") => exit_code = 0
       /\ exit_code = 1 =>
             (from_env(fs0, args).res = "Message" \/ with_template_err # "")

\* a configured run ended with a failed rename and a skipped candidate
C12_Witness ==
    /\ pc = "done" /\ Ran /\ exit_code = 0
    /\ Len(failed) >= 1
    /\ \E i \in 1..Len(oplog) : Outcome(i) = "failed"
    /\ \E i \in 1..Len(oplog) : Outcome(i) = "skipped"

-----------------------------------------------------------------------------
(* A second run: when the first run over the tree has ended, the program  *)
(* is started again on the tree as the run left it, or the loop of run is *)
(* executed once more over the list that was collected.                    *)

n_m_R3D == <<109, 46, 82, 51, 68>>       \* "m.R3D"

n_dotdotR3D == <<46, 46, 82, 51, 68>>    \* "..R3D"

RepeatSlots ==
    {<<n>> : n \in {n_m_NEV, n_m_R3D, n_x_NEV, n_x_R3D, n_dotdotR3D, n_d}}
        \cup {<<n_d, n_m_R3D>>}

\* a regular file, a directory, a link to m.NEV beside it
RepeatKinds == {"file", "dir", "link_m"}

RepeatArgs == {<<>>, <<a_invert>>}

\* the directory d may be one that cannot be listed
RepeatImpairments ==
    {[dir |-> <<>>, mode |-> "rwx"], [dir |-> <<n_d>>, mode |-> "-wx"]}

InitRepeat == InitWith(RepeatSlots, RepeatKinds, RepeatImpairments, RepeatArgs)

\* what is kept of a run that has ended; next tells how the following run
\* was started
RunRecord(next) ==
    [args |-> args, before |-> fs0, after |-> fs, files |-> files,
     oplog |-> oplog, failed |-> failed, warnings |-> warnings,
     converted |-> converted, skipped |-> skipped_existing,
     exit_code |-> exit_code, next |-> next]

\* the program is started again, with the arguments a, on the tree as it is
Rerun ==
    /\ pc = "done"
    /\ runs = <<>>
    /\ \E a \in RepeatArgs :
          /\ args' = a
          /\ runs' = Append(runs, RunRecord("rerun"))
    /\ fs0' = fs
    /\ pc' = "main"
    /\ config' = NoConfig
    /\ stack' = <<>>
    /\ files' = <<>>
    /\ warnings' = <<>>
    /\ idx' = 0
    /\ converted' = 0
    /\ skipped_existing' = 0
    /\ failed' = <<>>
    /\ out' = <<>>
    /\ notes' = <<>>
    /\ oplog' = <<>>
    /\ exit_code' = -1
    /\ popped' = {}
    /\ UNCHANGED <<fs, envlog>>

\* the loop of run is executed again over the same list of candidates, with
\* fresh tallies
ReExecute ==
    /\ pc = "done"
    /\ runs = <<>>
    /\ oplog # <<>>
    /\ runs' = Append(runs, RunRecord("reexecute"))
    /\ fs0' = fs
    /\ idx' = 1
    /\ pc' = "check"
    /\ converted' = 0
    /\ skipped_existing' = 0
    /\ failed' = <<>>
    /\ out' = <<>>
    /\ notes' = <<>>
    /\ oplog' = <<>>
    /\ exit_code' = -1
    /\ UNCHANGED <<fs, args, config, stack, files, warnings, popped, envlog>>

NextRepeat ==
    \/ Main \/ CollectStep \/ CollectDone \/ RunCheck \/ RunRename \/ RunFinish
    \/ Rerun \/ ReExecute

SpecRepeat == InitRepeat /\ [][NextRepeat]_vars

\* the run before the current one
Prev == runs[Len(runs)]

\* C13 as stated, taken on the runs whose first run skipped nothing: absent
\* rename failures, executing the loop again over the same candidate list right
\* after a run skips every candidate that run converted and renames nothing,
\* and a complete second run in the same direction converts zero files and
\* leaves the tree exactly as the first run left it.
C13_Idempotent ==
    (pc = "done" /\ runs # <<>> /\ Prev.args = args /\ Prev.exit_code = 0
     /\ Prev.failed = <<>> /\ failed = <<>> /\ Prev.skipped = 0) =>
        /\ converted = 0
        /\ fs = Prev.after
        /\ Prev.next = "reexecute" =>
              \A i \in 1..Len(oplog) :
                 Prev.oplog[i].outcome = "converted" => Outcome(i) = "skipped"

\* no entry named with the source or the target extension is a symbolic link
NoLinkedNames(f) ==
    \A p \in DOMAIN f \ {<<>>} :
       f[p].kind = "symlink" =>
          ~NameHasExt(p[Len(p)], NEV) /\ ~NameHasExt(p[Len(p)], R3D)

\* C13, amended: on a tree where no entry named with the source or the target
\* extension is a symbolic link, after a run without rename failures, executing
\* the loop again over the same candidate list skips every candidate and
\* renames nothing, and a complete second run in the same direction converts
\* zero files, fails on none and leaves the tree exactly as the first run left
\* it.
C13_IdempotentWithoutLinks ==
    (pc = "done" /\ runs # <<>> /\ Prev.args = args /\ Prev.exit_code = 0
     /\ Prev.failed = <<>> /\ NoLinkedNames(Prev.before)) =>
        /\ converted = 0
        /\ failed = <<>>
        /\ fs = Prev.after
        /\ Prev.next = "reexecute" =>
              \A i \in 1..Len(oplog) : Outcome(i) = "skipped"

\* a second run in the same direction has ended on a tree without links, after
\* a first run that converted one candidate and skipped another
C13_Witness ==
    /\ pc = "done" /\ runs # <<>> /\ Prev.args = args /\ Prev.exit_code = 0
    /\ Prev.failed = <<>> /\ NoLinkedNames(Prev.before)
    /\ Prev.converted >= 1 /\ Prev.skipped >= 1
    /\ Prev.next = "rerun"
    /\ oplog # <<>>

-----------------------------------------------------------------------------
\* a default run has ended and an --invert run over the same root has followed
RoundTrip ==
    /\ pc = "done" /\ runs # <<>> /\ Prev.next = "rerun"
    /\ Prev.args = <<>> /\ args = <<a_invert>>
    /\ Prev.exit_code = 0 /\ exit_code = 0

\* C14 as stated: a default run followed by an --invert run over the same root
\* does not restore the original file names whenever at least one candidate
\* was skipped in the first run because its target already existed.
C14_SkipPreventsRestore ==
    (RoundTrip /\ \E i \in 1..Len(Prev.oplog) :
                     Prev.oplog[i].outcome = "skipped" /\ Prev.oplog[i].occupied) =>
        fs # Prev.before

\* the regular files of f that collect_files reaches from root (every
\* directory from root down to the file is a real directory that can be
\* listed and searched), named with the extension R3D but not "..R3D", while
\* the same stem with the extension NEV is free
FreeR3D(f, root) ==
    {p \in DOMAIN f \ {<<>>} :
        /\ Below(f, root, p, {"-wx", "eio", "rw-"})
        /\ f[p].kind = "file"
        /\ NameHasExt(p[Len(p)], R3D)
        /\ ~DotDotName(p[Len(p)])
        /\ TargetPath(p, NEV) \notin DOMAIN f}

\* C14, amended: absent rename failures, a default run followed by an --invert
\* run over the same root does not restore the original file names whenever
\* the tree held, before the first run, a regular file that the traversal
\* reaches, named with the target extension R3D but not "..R3D", whose name
\* with the extension NEV was free: the first run leaves that file alone and
\* the inverted run takes it for a source and renames it.
C14_FreeTargetPreventsRestore ==
    (RoundTrip /\ Prev.failed = <<>> /\ failed = <<>>
     /\ FreeR3D(Prev.before, config.root) # {}) =>
        fs # Prev.before

\* a round trip has ended whose first run skipped a candidate, on a tree that
\* held a regular R3D file with a free NEV name
C14_Witness ==
    /\ RoundTrip /\ Prev.failed = <<>> /\ failed = <<>>
    /\ FreeR3D(Prev.before, config.root) # {}
    /\ Prev.skipped >= 1
    /\ converted >= 1

-----------------------------------------------------------------------------
(* Argument lists that hold an argument starting with '-' that is no       *)
(* option of the program, or several positional arguments, on trees that   *)
(* may hold a directory of that name.                                      *)

a_x == <<45, 120>>                                     \* "-x"

ArgSlots == {<<a_x>>, <<a_x, n_x_NEV>>, <<n_d>>, <<n_d, n_x_NEV>>, <<n_x_NEV>>}

ArgKinds == {"file", "dir", "link_cwd", "link_dx"}

\* positional arguments written with path syntax
p_dot     == <<46>>                                    \* "."
p_dotdot  == <<46, 46>>                                \* ".."
p_dot_d   == <<46, 47, 100>>                           \* "./d"
p_abs_d   == <<47, 100>>                               \* "/d"
p_d_slash == <<100, 47>>                               \* "d/"
p_d_x_NEV == <<100, 47, 120, 46, 78, 69, 86>>          \* "d/x.NEV"
p_x_slash == <<120, 46, 78, 69, 86, 47>>               \* "x.NEV/"

FlagArgLists ==
    {<<>>, <<n_d>>, <<a_invert, n_d>>, <<a_h>>,
     <<a_x>>, <<a_x, a_invert>>, <<a_invert, a_x>>, <<n_d, a_x>>,
     <<n_d, n_d>>, <<n_d, n_x_NEV>>, <<n_d, a_invert, n_d>>, <<n_d, n_d, a_help>>,
     <<p_dot>>, <<p_dotdot>>, <<p_dot_d>>, <<p_abs_d>>, <<p_d_slash>>,
     <<p_d_x_NEV>>, <<p_x_slash>>, <<<<>>>>}

InitArgs ==
    InitWith(ArgSlots, ArgKinds, {[dir |-> <<>>, mode |-> "rwx"]}, FlagArgLists)

SpecArgs == InitArgs /\ [][Next]_vars

\* the argument starts with '-' and is none of --invert, -h, --help
UnrecognizedFlag(t) == t # <<>> /\ t[1] = 45 /\ t \notin {a_invert, a_h, a_help}

\* the arguments that do not start with '-'
PositionalArgs(a) == SelectSeq(a, LAMBDA t : t = <<>> \/ t[1] # 45)

\* C15: an argument list with more than one positional argument, or with an
\* unrecognized flag, ends in a configuration error: exit code 1, an error and
\* the usage text printed, no traversal and no rename, whatever the tree.
C15_BadArgumentsRejected ==
    (Len(PositionalArgs(args)) > 1 \/ \E i \in 1..Len(args) : UnrecognizedFlag(args[i])) =>
        /\ pc \in {"main", "done"}
        /\ popped = {}
        /\ fs = fs0
        /\ pc = "done" => /\ exit_code = 1
                          /\ HasLine("error")
                          /\ HasLine("usage")

-----------------------------------------------------------------------------
(* The walk of collect_files on trees whose links point to an ancestor, to *)
(* themselves and to each other, under the assumption that the process is  *)
(* scheduled as long as it has a step to take.                             *)

LinkSlots == {<<n_d>>, <<n_x_NEV>>, <<n_m_NEV>>, <<n_d, n_x_NEV>>, <<n_d, n_m_NEV>>}

LinkKinds == {"file", "dir", "link_cwd", "link_m", "link_x", "link_dx"}

InitLinks ==
    InitWith(LinkSlots, LinkKinds, {[dir |-> <<>>, mode |-> "rwx"]}, {<<>>, <<n_d>>})

\* the process is sequential and runs until it exits
FairSpec == InitLinks /\ [][Next]_vars /\ WF_vars(Next)

NoDuplicates(s) == \A i, j \in 1..Len(s) : s[i] = s[j] => i = j

\* p is the root or lies below it through real directories only
ThroughDirs(f, root, p) ==
    /\ IsPrefix(root, p)
    /\ \A k \in Len(root)..(Len(p) - 1) :
          SubSeq(p, 1, k) \in DOMAIN f /\ f[SubSeq(p, 1, k)].kind = "dir"

\* C16: collect_files terminates on every finite tree, links to an ancestor or
\* to each other included. No path is on the work-list twice or again after it
\* was visited, a link to a directory is never listed or descended into (every
\* path pushed is reached through real directories), and a walk that has begun
\* leads to an empty work-list.
C16_CollectTerminates ==
    /\ [](/\ NoDuplicates(stack)
          /\ Range(stack) \cap popped = {}
          /\ \A p \in Range(stack) \cup popped : ThroughDirs(fs, config.root, p))
    /\ [][(pc = "collect" /\ stack # <<>>) =>
             (stack[Len(stack)] \notin popped /\ stack[Len(stack)] \in popped')]_vars
    /\ ((pc = "collect" /\ stack # <<>>) ~> (stack = <<>> /\ pc # "collect"))

\* the walk has ended on a tree with a link to the root and two links that
\* point to each other, and every entry was visited
C16_Witness ==
    /\ pc = "done" /\ Ran
    /\ \E p, q, r \in DOMAIN fs0 :
          /\ fs0[p].kind = "symlink" /\ fs0[p].to = <<>>
          /\ fs0[q].kind = "symlink" /\ fs0[r].kind = "symlink"
          /\ q # r /\ fs0[q].to = r /\ fs0[r].to = q
    /\ popped = DOMAIN fs0

-----------------------------------------------------------------------------
\* the candidates that are symbolic links and were converted
ConvertedLinks ==
    {i \in 1..Len(oplog) : Outcome(i) = "converted" /\ fs0[oplog[i].path].kind = "symlink"}

\* the run replaced no entry
NothingReplaced == \A i \in 1..Len(oplog) : Outcome(i) = "converted" => ~oplog[i].occupied

\* C17 as stated, taken on the runs that replaced no entry: a matching link
\* that resolves to a regular file is a candidate under its own path, and when
\* it was converted the referent has kept its path, name and content and the
\* renamed link still points to it.
C17_ReferentKept ==
    (pc = "done" /\ Ran /\ NothingReplaced) =>
        \A i \in ConvertedLinks :
           LET r == metadata(fs0, oplog[i].path)
           IN  /\ r.path \in DOMAIN fs
               /\ fs[r.path] = fs0[r.path]
               /\ metadata(fs, oplog[i].target).ok
               /\ metadata(fs, oplog[i].target).path = r.path

\* C17, amended: a matching link that resolves to a regular file is a
\* candidate under its own path; one that resolves to a directory is none; one
\* that fails to resolve leaves a warning and is none. The rename of a link
\* candidate moves the link itself, with its destination unchanged, to the
\* target path, and leaves every entry at another path as it is; a referent
\* the link resolves to at that moment keeps its path, name and content, and
\* the renamed link resolves to it.
C17_LinkRenamedAlone ==
    /\ [](Collected =>
            \A p \in Visited(fs0, config.root) \ {config.root} :
               (/\ LookupError(fs0, p) = ""
                /\ fs0[p].kind = "symlink"
                /\ NameHasExt(p[Len(p)], SrcExt)) =>
                   LET r == metadata(fs0, p)
                   IN  /\ (r.ok /\ r.meta.kind = "file") => p \in Range(files)
                       /\ (r.ok /\ r.meta.kind = "dir") => p \notin Range(files)
                       /\ ~r.ok => /\ p \notin Range(files)
                                   /\ \E w \in Range(warnings) :
                                         w.path = p /\ w.what = "Skipping symlink")
    /\ [][(/\ pc = "rename"
            /\ fs' # fs
            /\ fs[files[idx]].kind = "symlink") =>
              LET src == files[idx]
                  t   == with_extension(src, DstExt)
                  r   == metadata(fs, src)
              IN  /\ src \notin DOMAIN fs'
                  /\ t \in DOMAIN fs' /\ fs'[t] = fs[src]
                  /\ \A q \in DOMAIN fs \ {src, t} : q \in DOMAIN fs' /\ fs'[q] = fs[q]
                  /\ DOMAIN fs' \subseteq DOMAIN fs \cup {t}
                  /\ r.ok => /\ fs'[r.path] = fs[r.path]
                             /\ metadata(fs', t).ok
                             /\ metadata(fs', t).path = r.path]_vars

\* a link candidate was converted and the renamed link resolves to the regular
\* file it resolved to before the run, which is still at its path
C17_Witness ==
    /\ pc = "done" /\ Ran
    /\ \E i \in ConvertedLinks :
          /\ metadata(fs, oplog[i].target).ok
          /\ metadata(fs, oplog[i].target).path = metadata(fs0, oplog[i].path).path
          /\ fs[oplog[i].target] = fs0[oplog[i].path]

-----------------------------------------------------------------------------
(* Another process changes the tree while run executes its loop: between   *)
(* the collection and each step of the loop, and between the test of       *)
(* target.exists() and the rename of the same candidate. The trees hold    *)
(* regular files only.                                                     *)

\* the number of changes the other process makes
MaxEnvSteps == 2

EnvSlots == {<<n>> : n \in {n_m_NEV, n_x_NEV, n_x_nev, n_x_R3D}}

\* the paths the other process creates or deletes
EnvPaths == EnvSlots \cup {<<n_m_R3D>>}

n_env == <<101, 110, 118>>               \* "env", the content of a created file

InitEnv ==
    InitWith(EnvSlots, {"file"}, {[dir |-> <<>>, mode |-> "rwx"]}, {<<>>, <<a_invert>>})

\* the other process creates a regular file
EnvCreate ==
    /\ pc \in {"check", "rename"}
    /\ Len(envlog) < MaxEnvSteps
    /\ \E p \in EnvPaths \ DOMAIN fs :
          /\ fs' = [q \in DOMAIN fs \cup {p} |-> IF q = p THEN File(<<n_env>>) ELSE fs[q]]
          /\ envlog' = Append(envlog, [op |-> "create", path |-> p, idx |-> idx, pc |-> pc])
    /\ UNCHANGED <<fs0, args, pc, config, stack, files, warnings, idx, converted,
                   skipped_existing, failed, out, oplog, exit_code, popped, runs, notes>>

\* the other process deletes a regular file
EnvDelete ==
    /\ pc \in {"check", "rename"}
    /\ Len(envlog) < MaxEnvSteps
    /\ \E p \in EnvPaths \cap DOMAIN fs :
          /\ fs[p].kind = "file"
          /\ fs' = [q \in DOMAIN fs \ {p} |-> fs[q]]
          /\ envlog' = Append(envlog, [op |-> "delete", path |-> p, idx |-> idx, pc |-> pc])
    /\ UNCHANGED <<fs0, args, pc, config, stack, files, warnings, idx, converted,
                   skipped_existing, failed, out, oplog, exit_code, popped, runs, notes>>

NextEnv ==
    \/ Main \/ CollectStep \/ CollectDone \/ RunCheck \/ RunRename \/ RunFinish
    \/ EnvCreate \/ EnvDelete

SpecEnv == InitEnv /\ [][NextEnv]_vars

\* C18: interleaved with a process that deletes and creates files, the run
\* processes every candidate exactly once and in order; a candidate that is
\* gone when it is processed is not counted converted (it is failed, or
\* skipped when its target exists); a candidate whose target path holds an
\* entry at the moment of its step is skipped or failed, so the executor never
\* replaces an entry that exists at the target path at the moment of the rename.
C18_NeverReplacesUnderInterleaving ==
    /\ Len(oplog) <= Len(files)
    /\ pc = "done" /\ Ran => Len(oplog) = Len(files)
    /\ \A i \in 1..Len(oplog) :
          /\ oplog[i].path = files[i]
          /\ ~oplog[i].present => Outcome(i) \in {"failed", "skipped"}
          /\ oplog[i].occupied => Outcome(i) \in {"skipped", "failed"}

-----------------------------------------------------------------------------
\* the candidates that were converted, by their place in the list
ConvertedAt == {i \in 1..Len(oplog) : Outcome(i) = "converted"}

\* C19: the only change a run makes to the tree is moving a converted
\* candidate to its own target path. collect_files changes nothing, and while
\* nothing is converted the tree is as it was. Every path that is neither a
\* converted candidate nor the target of one holds the same entry as before
\* the run, skipped and failed candidates and their targets included; a
\* converted candidate is gone from its path and its target path holds the
\* entry of the last candidate that was moved there.
C19_Frame ==
    LET moved   == {oplog[i].path : i \in ConvertedAt}
        targets == {TargetPath(oplog[i].path, DstExt) : i \in ConvertedAt}
    IN  /\ ConvertedAt = {} => fs = fs0
        /\ \A p \in (DOMAIN fs0 \cup DOMAIN fs) \ (moved \cup targets) :
              p \in DOMAIN fs0 /\ p \in DOMAIN fs /\ fs[p] = fs0[p]
        /\ \A i \in ConvertedAt :
              /\ oplog[i].path \notin DOMAIN fs
              /\ TargetPath(oplog[i].path, DstExt) \in DOMAIN fs
              /\ (\A j \in ConvertedAt :
                     TargetPath(oplog[j].path, DstExt) = TargetPath(oplog[i].path, DstExt)
                        => j <= i)
                  => fs[TargetPath(oplog[i].path, DstExt)] = fs0[oplog[i].path]

\* a run has converted a candidate and skipped another, beside an entry that
\* is no candidate
C19_Witness ==
    /\ pc = "done" /\ Ran
    /\ ConvertedAt # {}
    /\ \E i \in 1..Len(oplog) : Outcome(i) = "skipped" /\ oplog[i].path \in DOMAIN fs
    /\ \E p \in DOMAIN fs \ ({<<>>} \cup Range(files)) :
          /\ \A i \in 1..Len(oplog) : p # TargetPath(oplog[i].path, DstExt)
          /\ fs[p] = fs0[p]
====
